---- MODULE Spec2Model ----
(***************************************************************************)
(* The SPIR-V binary parser of rspirv (binary/parser.rs): the driver       *)
(* Parser::parse with its consumer protocol, parse_header, parse_inst, the *)
(* operand walker parse_operands, parse_literal and the TypeTracker.       *)
(* The word decoder, the grammar tables and the generated parse_operand    *)
(* are collaborators of the parser; they are modelled by their contract.   *)
(***************************************************************************)
EXTENDS Integers, Sequences, FiniteSets, TLC

VARIABLES
    binary,          \* Decoder.bytes: the input, a sequence of bytes
    offset,          \* Decoder.offset: byte position in the input
    limit,           \* Decoder.limit: <<>> is None, <<n>> is Some(n)
    types,           \* TypeTracker.types: set of <<id, Type>> pairs (a map)
    inst_index,      \* Parser.inst_index
    pc,              \* position of Parser::parse
    header,          \* the header parse_header returned (<<>> before)
    grammar,         \* parse_operands: opcode of the signature being walked
    rtype,           \* parse_operands: rtype (Option)
    rid,             \* parse_operands: rid (Option)
    coperands,       \* parse_operands: coperands
    loperand_index,  \* parse_operands: loperand_index
    walk,            \* parse_operands: its result once it has returned
    inst,            \* the instruction parse_inst returned (Option)
    inst_start,      \* byte offset at which the current instruction began
    calls,           \* the consumer's observation: every callback made, in order
    result           \* what parse returned; tag "Pending" while it runs

vars == <<binary, offset, limit, types, inst_index, pc, header, grammar, rtype,
          rid, coperands, loperand_index, walk, inst, inst_start, calls, result>>

----------------------------------------------------------------------------
(* Bounds of the model *)

\* in a generated module at most this many well-formed instructions precede
\* the last instruction
MaxPrelude == 1

----------------------------------------------------------------------------
(* Program constants *)

WORD_NUM_BYTES == 4
HEADER_NUM_WORDS == 5
\* 0x07230203
MAGIC_NUMBER == 119734787

None == <<>>
Some(x) == <<x>>
IsSome(o) == Len(o) = 1
Unwrap(o) == o[1]

----------------------------------------------------------------------------
(* Bytes and words *)

\* tests::w2b: the four bytes of a word, low byte first
w2b(word) ==
    [i \in 1..WORD_NUM_BYTES |-> (word \div (256 ^ (i - 1))) % 256]

\* the little-endian word held in four bytes
BytesToWord(b) ==
    b[1] + 256 * b[2] + 65536 * b[3] + 16777216 * b[4]

\* u32::swap_bytes
swap_bytes(word) ==
    LET b == w2b(word) IN BytesToWord(<<b[4], b[3], b[2], b[1]>>)

\* Parser::split_into_word_count_and_opcode: (word >> 16, word & 0xffff)
split_into_word_count_and_opcode(word) ==
    <<word \div 65536, word % 65536>>

----------------------------------------------------------------------------
(* DecodeError and State values: records of one shape *)

NoDecodeError == [tag |-> "NoDecodeError", offset |-> 0]
StreamExpected(off) == [tag |-> "StreamExpected", offset |-> off]

MkState(t, d, off, idx, op, e) ==
    [tag |-> t, derr |-> d, offset |-> off, index |-> idx, opcode |-> op,
     cerr |-> e]
Pending == MkState("Pending", NoDecodeError, 0, 0, 0, 0)
OkResult == MkState("Ok", NoDecodeError, 0, 0, 0, 0)
Complete == MkState("Complete", NoDecodeError, 0, 0, 0, 0)
ConsumerStopRequested ==
    MkState("ConsumerStopRequested", NoDecodeError, 0, 0, 0, 0)
ConsumerError(e) == MkState("ConsumerError", NoDecodeError, 0, 0, 0, e)
HeaderIncomplete(d) == MkState("HeaderIncomplete", d, 0, 0, 0, 0)
HeaderIncorrect == MkState("HeaderIncorrect", NoDecodeError, 0, 0, 0, 0)
EndiannessUnsupported ==
    MkState("EndiannessUnsupported", NoDecodeError, 0, 0, 0, 0)
WordCountZero(off, idx) ==
    MkState("WordCountZero", NoDecodeError, off, idx, 0, 0)
OpcodeUnknown(off, idx, op) ==
    MkState("OpcodeUnknown", NoDecodeError, off, idx, op, 0)
OperandExpected(off, idx) ==
    MkState("OperandExpected", NoDecodeError, off, idx, 0, 0)
OperandExceeded(off, idx) ==
    MkState("OperandExceeded", NoDecodeError, off, idx, 0, 0)
OperandError(d) == MkState("OperandError", d, 0, 0, 0, 0)
TypeUnsupported(off, idx) ==
    MkState("TypeUnsupported", NoDecodeError, off, idx, 0, 0)

----------------------------------------------------------------------------
(* The word decoder (binary/decoder.rs), by its contract.  A decoder state *)
(* is the pair (off, lim) over the bytes; every read returns a record      *)
(* [ok, val, err, off, lim].                                               *)

DecOk(v, off, lim) ==
    [ok |-> TRUE, val |-> v, err |-> NoDecodeError, off |-> off, lim |-> lim]
DecErr(e, off, lim) ==
    [ok |-> FALSE, val |-> 0, err |-> e, off |-> off, lim |-> lim]

\* LET x == v IN Body(x), with v evaluated once however often Body uses x
With(v, Body(_)) == CHOOSE r \in {Body(x) : x \in {v}} : TRUE

\* Decoder::limit_reached
limit_reached(lim) == IsSome(lim) /\ Unwrap(lim) = 0

\* Decoder::set_limit / Decoder::clear_limit
set_limit(n) == Some(n)
clear_limit == None

\* Decoder::word: a read beyond the budget fails with StreamExpected at the
\* current offset; otherwise one word of the budget is charged, and the read
\* fails when fewer than four bytes remain.
DecWord(bytes, off, lim) ==
    IF limit_reached(lim)
    THEN DecErr(StreamExpected(off), off, lim)
    ELSE LET lim2 == IF IsSome(lim) THEN Some(Unwrap(lim) - 1) ELSE lim IN
         IF off + WORD_NUM_BYTES > Len(bytes)
         THEN DecErr(StreamExpected(Len(bytes)), off, lim2)
         ELSE DecOk(BytesToWord(SubSeq(bytes, off + 1, off + WORD_NUM_BYTES)),
                    off + WORD_NUM_BYTES, lim2)

\* Decoder::words(n): n words, or the first failure.  val is the sequence.
RECURSIVE DecWords(_, _, _, _)
DecWords(bytes, off, lim, n) ==
    IF n = 0
    THEN [ok |-> TRUE, val |-> <<>>, err |-> NoDecodeError, off |-> off,
          lim |-> lim]
    ELSE With(DecWord(bytes, off, lim), LAMBDA w :
         IF ~w.ok
         THEN [ok |-> FALSE, val |-> <<>>, err |-> w.err, off |-> w.off,
               lim |-> w.lim]
         ELSE With(DecWords(bytes, w.off, w.lim, n - 1), LAMBDA r :
              [r EXCEPT !.val = <<w.val>> \o r.val]))

\* the bytes of a word that precede its first NUL
RECURSIVE UpToNul(_)
UpToNul(bs) ==
    IF bs = <<>> \/ Head(bs) = 0 THEN <<>> ELSE <<Head(bs)>> \o UpToNul(Tail(bs))

\* Decoder::string: words are read until one holds a NUL; val is the bytes
\* of the string, the NUL and the padding dropped.
RECURSIVE DecString(_, _, _)
DecString(bytes, off, lim) ==
    With(DecWord(bytes, off, lim), LAMBDA w :
    IF ~w.ok
    THEN [ok |-> FALSE, val |-> <<>>, err |-> w.err, off |-> w.off,
          lim |-> w.lim]
    ELSE LET bs == w2b(w.val)
             pre == UpToNul(bs)
         IN IF Len(pre) < WORD_NUM_BYTES
            THEN [ok |-> TRUE, val |-> pre, err |-> NoDecodeError,
                  off |-> w.off, lim |-> w.lim]
            ELSE With(DecString(bytes, w.off, w.lim), LAMBDA r :
                 [r EXCEPT !.val = pre \o r.val]))

----------------------------------------------------------------------------
(* The grammar tables (grammar crate), by their contract: the opcodes and  *)
(* signatures of the SPIR-V instructions the model's inputs use.           *)

\* spirv::Op, the opcodes used
Op ==
    [Nop |-> 0, Undef |-> 1, Source |-> 3, MemoryModel |-> 14,
     ExecutionMode |-> 16, Capability |-> 17, TypeVoid |-> 19, TypeInt |-> 21, TypeFloat |-> 22,
     TypeStruct |-> 30, Constant |-> 43, SpecConstant |-> 45, Decorate |-> 71]

\* grammar::LogicalOperand
L(k, q) == [kind |-> k, quantifier |-> q]

\* grammar::InstructionTable: opcode -> logical operands
GInstTable ==
    (Op.Nop :> <<>>) @@
    (Op.Undef :> <<L("IdResultType", "One"), L("IdResult", "One")>>) @@
    (Op.Source :> <<L("SourceLanguage", "One"), L("LiteralInteger", "One"),
                    L("IdRef", "ZeroOrOne"), L("LiteralString", "ZeroOrOne")>>) @@
    (Op.MemoryModel :> <<L("AddressingModel", "One"), L("MemoryModel", "One")>>) @@
    (Op.ExecutionMode :> <<L("IdRef", "One"), L("ExecutionMode", "One")>>) @@
    (Op.Capability :> <<L("Capability", "One")>>) @@
    (Op.TypeVoid :> <<L("IdResult", "One")>>) @@
    (Op.TypeInt :> <<L("IdResult", "One"), L("LiteralInteger", "One"),
                     L("LiteralInteger", "One")>>) @@
    (Op.TypeFloat :> <<L("IdResult", "One"), L("LiteralInteger", "One")>>) @@
    (Op.TypeStruct :> <<L("IdResult", "One"), L("IdRef", "ZeroOrMore")>>) @@
    (Op.Constant :> <<L("IdResultType", "One"), L("IdResult", "One"),
                      L("LiteralContextDependentNumber", "One")>>) @@
    (Op.SpecConstant :> <<L("IdResultType", "One"), L("IdResult", "One"),
                          L("LiteralContextDependentNumber", "One")>>) @@
    (Op.Decorate :> <<L("IdRef", "One"), L("Decoration", "One")>>)

\* GInstTable::lookup_opcode: Some(signature's opcode) or None
lookup_opcode(opcode) ==
    IF opcode \in DOMAIN GInstTable THEN Some(opcode) ELSE None

\* grammar::reflect::is_type: the OpType* opcodes
is_type(opcode) ==
    opcode \in {Op.TypeVoid, Op.TypeInt, Op.TypeFloat, Op.TypeStruct}

\* spirv::Decoration, the enumerants used
Decoration == [RelaxedPrecision |-> 0, SpecId |-> 1, BuiltIn |-> 11]

\* spirv::ExecutionMode, the enumerants used
ExecutionMode == [Invocations |-> 0, LocalSize |-> 17]

\* the parameter kinds an enumerant carries (operand-kind grammar)
EnumParams(kind, val) ==
    IF kind = "Decoration" /\ val = Decoration.BuiltIn THEN <<"BuiltIn">>
    ELSE IF kind = "Decoration" /\ val = Decoration.SpecId
         THEN <<"LiteralInteger">>
    ELSE IF kind = "ExecutionMode" /\ val = ExecutionMode.LocalSize
         THEN <<"LiteralInteger", "LiteralInteger", "LiteralInteger">>
    ELSE IF kind = "ExecutionMode" /\ val = ExecutionMode.Invocations
         THEN <<"LiteralInteger">>
    ELSE <<>>

----------------------------------------------------------------------------
(* mr::Operand, mr::Instruction, mr::ModuleHeader *)

\* mr::Operand: kind is the variant; a 64-bit literal keeps its low word in
\* val and its high word in hi; a float is kept as its bit pattern; a string
\* is kept in str as its bytes.
Operand(k, v) == [kind |-> k, val |-> v, hi |-> 0, str |-> <<>>]
Operand64(k, lo, h) == [kind |-> k, val |-> lo, hi |-> h, str |-> <<>>]
OperandStr(bs) == [kind |-> "LiteralString", val |-> 0, hi |-> 0, str |-> bs]

\* mr::Instruction::new
Instruction(opcode, rt, ri, ops) ==
    [opcode |-> opcode, result_type |-> rt, result_id |-> ri, operands |-> ops]

\* mr::ModuleHeader::new
ModuleHeader(m, v, g, b, r) ==
    [magic |-> m, version |-> v, generator |-> g, bound |-> b, reserved |-> r]

----------------------------------------------------------------------------
(* TypeTracker *)

\* Type::Integer(size, signed), Type::Float(size)
Integer(size, signed) == [kind |-> "Integer", size |-> size, signed |-> signed]
Float(size) == [kind |-> "Float", size |-> size, signed |-> FALSE]

\* HashMap::insert on the id -> Type map
Insert(m, k, v) == [x \in DOMAIN m \cup {k} |-> IF x = k THEN v ELSE m[x]]

\* TypeTracker::resolve
resolve(m, id) == IF id \in DOMAIN m THEN Some(m[id]) ELSE None

\* track that takes every non-zero signedness word for signed
track_SignNonZero(m, i) ==
    IF ~IsSome(i.result_id) THEN m
    ELSE LET r == Unwrap(i.result_id) IN
         IF is_type(i.opcode)
         THEN IF i.opcode = Op.TypeInt
              THEN Insert(m, r, Integer(i.operands[1].val,
                                        i.operands[2].val # 0))
              ELSE IF i.opcode = Op.TypeFloat
              THEN Insert(m, r, Float(i.operands[1].val))
              ELSE m
         ELSE IF IsSome(i.result_type)
                 /\ IsSome(resolve(m, Unwrap(i.result_type)))
              THEN Insert(m, r, Unwrap(resolve(m, Unwrap(i.result_type))))
              ELSE m

\* track that records type definitions only: the result id of another
\* instruction does not take the type of its result type
track_NoCopy(m, i) ==
    IF ~IsSome(i.result_id) THEN m
    ELSE LET r == Unwrap(i.result_id) IN
         IF i.opcode = Op.TypeInt
         THEN Insert(m, r, Integer(i.operands[1].val, i.operands[2].val = 1))
         ELSE IF i.opcode = Op.TypeFloat
         THEN Insert(m, r, Float(i.operands[1].val))
         ELSE m

\* track that forgets the record of a result whose result type it does not
\* know
track_ClearOnUnknown(m, i) ==
    IF ~IsSome(i.result_id) THEN m
    ELSE LET r == Unwrap(i.result_id) IN
         IF is_type(i.opcode)
         THEN IF i.opcode = Op.TypeInt
              THEN Insert(m, r, Integer(i.operands[1].val,
                                        i.operands[2].val = 1))
              ELSE IF i.opcode = Op.TypeFloat
              THEN Insert(m, r, Float(i.operands[1].val))
              ELSE m
         ELSE IF IsSome(i.result_type)
                 /\ IsSome(resolve(m, Unwrap(i.result_type)))
              THEN Insert(m, r, Unwrap(resolve(m, Unwrap(i.result_type))))
              ELSE [k \in DOMAIN m \ {r} |-> m[k]]

\* TypeTracker::track: the map after tracking instruction i
track(m, i) ==
    IF ~IsSome(i.result_id) THEN m
    ELSE LET r == Unwrap(i.result_id) IN
         IF is_type(i.opcode)
         THEN IF i.opcode = Op.TypeInt
              THEN IF i.operands[1].kind = "LiteralInt32"
                      /\ i.operands[2].kind = "LiteralInt32"
                   THEN Insert(m, r, Integer(i.operands[1].val,
                                             i.operands[2].val = 1))
                   ELSE m
              ELSE IF i.opcode = Op.TypeFloat
              THEN IF i.operands[1].kind = "LiteralInt32"
                   THEN Insert(m, r, Float(i.operands[1].val))
                   ELSE m
              ELSE m
         ELSE IF IsSome(i.result_type)
                 /\ IsSome(resolve(m, Unwrap(i.result_type)))
              THEN Insert(m, r, Unwrap(resolve(m, Unwrap(i.result_type))))
              ELSE m

----------------------------------------------------------------------------
(* Operand parsing.  Every parser returns [ok, err, ops, off, lim]: err is *)
(* the State returned on failure, ops the operands appended on success.    *)

POk(ops, off, lim) ==
    [ok |-> TRUE, err |-> Pending, ops |-> ops, off |-> off, lim |-> lim]
PErr(e, off, lim) ==
    [ok |-> FALSE, err |-> e, ops |-> <<>>, off |-> off, lim |-> lim]

\* Dec64 taking the first word as the high half
Dec64_HighFirst(k, bytes, off, lim) ==
    LET h == DecWord(bytes, off, lim) IN
    IF ~h.ok THEN PErr(OperandError(h.err), h.off, h.lim)
    ELSE LET lo == DecWord(bytes, h.off, h.lim) IN
         IF ~lo.ok THEN PErr(OperandError(lo.err), lo.off, lo.lim)
         ELSE POk(<<Operand64(k, lo.val, h.val)>>, lo.off, lo.lim)

\* Dec64 making the value of the low word alone when the high word cannot
\* be read
Dec64_LowWordOnly(k, bytes, off, lim) ==
    LET lo == DecWord(bytes, off, lim) IN
    IF ~lo.ok THEN PErr(OperandError(lo.err), lo.off, lo.lim)
    ELSE LET h == DecWord(bytes, lo.off, lo.lim) IN
         IF ~h.ok THEN POk(<<Operand64(k, lo.val, 0)>>, lo.off, lo.lim)
         ELSE POk(<<Operand64(k, lo.val, h.val)>>, h.off, h.lim)

\* decode two words as one 64-bit value, low word first (Decoder::int64,
\* Decoder::float64)
Dec64(k, bytes, off, lim) ==
    LET lo == DecWord(bytes, off, lim) IN
    IF ~lo.ok THEN PErr(OperandError(lo.err), lo.off, lo.lim)
    ELSE LET h == DecWord(bytes, lo.off, lo.lim) IN
         IF ~h.ok THEN PErr(OperandError(h.err), h.off, h.lim)
         ELSE POk(<<Operand64(k, lo.val, h.val)>>, h.off, h.lim)

\* Dec32 reporting a failed read as a missing operand
Dec32_AsOperandExpected(k, bytes, off, lim) ==
    LET w == DecWord(bytes, off, lim) IN
    IF ~w.ok THEN PErr(OperandExpected(w.off, 0), w.off, w.lim)
    ELSE POk(<<Operand(k, w.val)>>, w.off, w.lim)

\* decode one word as an operand of variant k (Decoder::int32, ::float32)
Dec32(k, bytes, off, lim) ==
    LET w == DecWord(bytes, off, lim) IN
    IF ~w.ok THEN PErr(OperandError(w.err), w.off, w.lim)
    ELSE POk(<<Operand(k, w.val)>>, w.off, w.lim)

\* parse_literal that knows signed integers only: an unsigned one is taken
\* for an unknown type
parse_literal_SignedOnly(type_id, m, idx, bytes, off, lim) ==
    LET tracked_type == resolve(m, type_id) IN
    IF IsSome(tracked_type)
       /\ (Unwrap(tracked_type).kind = "Float" \/ Unwrap(tracked_type).signed)
    THEN LET t == Unwrap(tracked_type) IN
         IF t.kind = "Integer"
         THEN IF t.size = 32 THEN Dec32("LiteralInt32", bytes, off, lim)
              ELSE IF t.size = 64 THEN Dec64("LiteralInt64", bytes, off, lim)
              ELSE PErr(TypeUnsupported(off, idx), off, lim)
         ELSE IF t.size = 32 THEN Dec32("LiteralFloat32", bytes, off, lim)
              ELSE IF t.size = 64 THEN Dec64("LiteralFloat64", bytes, off, lim)
              ELSE PErr(TypeUnsupported(off, idx), off, lim)
    ELSE Dec32("LiteralInt32", bytes, off, lim)

\* parse_literal that refuses a result type it has no record of
parse_literal_UntrackedUnsupported(type_id, m, idx, bytes, off, lim) ==
    LET tracked_type == resolve(m, type_id) IN
    IF IsSome(tracked_type)
    THEN LET t == Unwrap(tracked_type) IN
         IF t.kind = "Integer"
         THEN IF t.size = 32 THEN Dec32("LiteralInt32", bytes, off, lim)
              ELSE IF t.size = 64 THEN Dec64("LiteralInt64", bytes, off, lim)
              ELSE PErr(TypeUnsupported(off, idx), off, lim)
         ELSE IF t.size = 32 THEN Dec32("LiteralFloat32", bytes, off, lim)
              ELSE IF t.size = 64 THEN Dec64("LiteralFloat64", bytes, off, lim)
              ELSE PErr(TypeUnsupported(off, idx), off, lim)
    ELSE PErr(TypeUnsupported(off, idx), off, lim)

\* Parser::parse_literal
parse_literal(type_id, m, idx, bytes, off, lim) ==
    LET tracked_type == resolve(m, type_id) IN
    IF IsSome(tracked_type)
    THEN LET t == Unwrap(tracked_type) IN
         IF t.kind = "Integer"
         THEN IF t.size = 32 THEN Dec32("LiteralInt32", bytes, off, lim)
              ELSE IF t.size = 64 THEN Dec64("LiteralInt64", bytes, off, lim)
              ELSE PErr(TypeUnsupported(off, idx), off, lim)
         ELSE IF t.size = 32 THEN Dec32("LiteralFloat32", bytes, off, lim)
              ELSE IF t.size = 64 THEN Dec64("LiteralFloat64", bytes, off, lim)
              ELSE PErr(TypeUnsupported(off, idx), off, lim)
    ELSE Dec32("LiteralInt32", bytes, off, lim)

\* Parser::parse_operand (parse_operand.rs): one operand of the given kind
\* and, after an enumerant, the operands of its parameters, in order.
RECURSIVE parse_operand(_, _, _, _)
RECURSIVE parse_params(_, _, _, _)
parse_operand(kind, bytes, off, lim) ==
    IF kind = "LiteralString"
    THEN With(DecString(bytes, off, lim), LAMBDA s :
         IF ~s.ok THEN PErr(OperandError(s.err), s.off, s.lim)
         ELSE POk(<<OperandStr(s.val)>>, s.off, s.lim))
    ELSE LET k == IF kind = "LiteralInteger" THEN "LiteralInt32" ELSE kind IN
         With(Dec32(k, bytes, off, lim), LAMBDA w :
         IF ~w.ok THEN w
         ELSE With(parse_params(EnumParams(kind, w.ops[1].val), bytes,
                                w.off, w.lim), LAMBDA ps :
              IF ~ps.ok THEN ps
              ELSE POk(w.ops \o ps.ops, ps.off, ps.lim)))
parse_params(kinds, bytes, off, lim) ==
    IF kinds = <<>> THEN POk(<<>>, off, lim)
    ELSE With(parse_operand(Head(kinds), bytes, off, lim), LAMBDA a :
         IF ~a.ok THEN a
         ELSE With(parse_params(Tail(kinds), bytes, a.off, a.lim), LAMBDA r :
              IF ~r.ok THEN r ELSE POk(a.ops \o r.ops, r.off, r.lim)))

----------------------------------------------------------------------------
(* The inputs: modules built as the tests build them, and every prefix     *)

\* tests::ZERO_BOUND_HEADER as words: magic, version 1.0, generator, bound,
\* reserved
ZERO_BOUND_HEADER == <<MAGIC_NUMBER, 65536, 0, 0, 0>>

\* the first word of an instruction: (count << 16) | opcode
FirstWord(count, opcode) == count * 65536 + opcode

\* an instruction whose declared word count need not match its words
RawInst(count, opcode, operands) == <<FirstWord(count, opcode)>> \o operands

\* tests::ModuleBuilder::inst
BuildInst(opcode, operands) == RawInst(Len(operands) + 1, opcode, operands)

\* "wow\0" as a word
WowWord == BytesToWord(<<119, 111, 119, 0>>)
\* "wowo": a word of a string that goes on
WowoWord == BytesToWord(<<119, 111, 119, 111>>)
\* "wo\0" and a byte that is not zero where the padding is
WoPaddedWord == BytesToWord(<<119, 111, 0, 119>>)

\* well-formed instructions that define types: what a later instruction's
\* parse may depend on
TypeInsts ==
    { BuildInst(Op.TypeInt, <<1, 32, 1>>),
      BuildInst(Op.TypeInt, <<1, 64, 0>>),
      BuildInst(Op.TypeInt, <<1, 16, 1>>),
      BuildInst(Op.TypeFloat, <<1, 32>>),
      BuildInst(Op.TypeFloat, <<1, 64>>),
      BuildInst(Op.TypeFloat, <<1, 16>>) }

\* the other well-formed instructions (as words)
PlainInsts ==
    { BuildInst(Op.Nop, <<>>),
      BuildInst(Op.MemoryModel, <<0, 1>>),
      BuildInst(Op.Constant, <<1, 2, 305419896>>),
      BuildInst(Op.Constant, <<1, 2, 305419896, 7>>),
      BuildInst(Op.SpecConstant, <<1, 2, 9>>),
      BuildInst(Op.Decorate, <<5, Decoration.BuiltIn, 6>>),
      BuildInst(Op.Source, <<2, 450, 6, WowWord>>),
      BuildInst(Op.TypeStruct, <<3, 1, 1>>),
      BuildInst(Op.TypeInt, <<1, 32, 2>>),
      BuildInst(Op.Undef, <<1, 2>>),
      BuildInst(Op.Decorate, <<5, Decoration.SpecId, 6>>),
      BuildInst(Op.Source, <<2, 450>>),
      BuildInst(Op.Source, <<2, 450, 6>>),
      BuildInst(Op.Source, <<2, 450, 6, WowoWord, WoPaddedWord>>),
      BuildInst(Op.ExecutionMode, <<4, ExecutionMode.LocalSize, 8, 9, 10>>),
      BuildInst(Op.TypeVoid, <<1>>),
      BuildInst(Op.Undef, <<9, 1>>) }

\* instructions whose declared word count is zero, too large or too small,
\* or whose opcode is unknown (13 and 0xffff name no SPIR-V instruction);
\* two of them followed by a well-formed one
MalformedInsts ==
    { RawInst(0, Op.Nop, <<>>) \o BuildInst(Op.Nop, <<>>),
      RawInst(2, Op.Nop, <<0>>),
      RawInst(0, Op.MemoryModel - 1, <<>>),
      RawInst(2, 65535, <<7>>) \o BuildInst(Op.Nop, <<>>),
      RawInst(2, Op.MemoryModel, <<0>>),
      RawInst(3, Op.Decorate, <<5, Decoration.BuiltIn>>),
      RawInst(3, Op.Decorate, <<5, Decoration.SpecId>>)
          \o BuildInst(Op.Nop, <<>>),
      RawInst(4, Op.MemoryModel, <<0, 1, 7>>),
      RawInst(3, Op.Constant, <<1, 2>>) \o BuildInst(Op.Nop, <<>>),
      RawInst(6, Op.Source, <<2, 450, 6, WowWord, 9>>),
      BuildInst(Op.Constant, <<1, 2, 305419896>>) \o BuildInst(Op.Nop, <<>>) }

Catalogue == TypeInsts \cup PlainInsts \cup MalformedInsts

\* headers: the tests' header, one with other field values, the magic
\* byte-swapped, and two wrong magics
GoodHeaders == { ZERO_BOUND_HEADER, <<MAGIC_NUMBER, 66048, 7, 9, 0>> }
BadHeaders ==
    { <<swap_bytes(MAGIC_NUMBER), 65536, 0, 0, 0>>,
      <<MAGIC_NUMBER - 3, 65536, 0, 0, 0>>,
      <<0, 0, 0, 0, 0>> }

\* the words of at most n instructions, each a Nop or a type definition
RECURSIVE Preludes(_)
Preludes(n) ==
    IF n = 0 THEN { <<>> }
    ELSE LET shorter == Preludes(n - 1) IN
         shorter \cup { s \o i : s \in shorter,
                                 i \in TypeInsts \cup {BuildInst(Op.Nop, <<>>)} }

RECURSIVE WordsToBytes(_)
WordsToBytes(ws) ==
    IF ws = <<>> THEN <<>> ELSE w2b(Head(ws)) \o WordsToBytes(Tail(ws))

\* chains of instructions in which a type reaches a constant through the
\* result id of an instruction between them, or is defined twice
Chains ==
    { BuildInst(Op.TypeInt, <<1, 64, 0>>)
          \o BuildInst(Op.Constant, <<1, 2, 305419896, 7>>)
          \o BuildInst(Op.Constant, <<2, 3, 9, 305419896>>),
      BuildInst(Op.TypeFloat, <<1, 32>>)
          \o BuildInst(Op.Undef, <<1, 2>>)
          \o BuildInst(Op.SpecConstant, <<2, 3, 9>>),
      BuildInst(Op.TypeInt, <<1, 32, 2>>)
          \o BuildInst(Op.Constant, <<1, 2, 305419896>>),
      BuildInst(Op.TypeInt, <<1, 32, 0>>)
          \o BuildInst(Op.TypeFloat, <<1, 64>>)
          \o BuildInst(Op.Constant, <<1, 2, 305419896, 7>>) }

\* a header, at most MaxPrelude well-formed instructions, then one more
\* instruction of any sort; a header and a chain; after another header just
\* one instruction
Modules ==
    { WordsToBytes(ZERO_BOUND_HEADER \o p \o i) :
        p \in Preludes(MaxPrelude), i \in Catalogue }
    \cup { WordsToBytes(ZERO_BOUND_HEADER \o c) : c \in Chains }
    \cup { WordsToBytes(h \o i) : h \in GoodHeaders \cup BadHeaders,
                                   i \in Catalogue }

\* every input: a module cut after any number of its bytes
Binaries == UNION { { SubSeq(m, 1, n) : n \in 0..Len(m) } : m \in Modules }

----------------------------------------------------------------------------
(* The consumer: each callback answers with any Action *)

Continue == [tag |-> "Continue", e |-> 0]
Stop == [tag |-> "Stop", e |-> 0]
Error(e) == [tag |-> "Error", e |-> e]

\* the payloads a consumer's Action::Error carries
ConsumerErrs == {1, 2}
Actions == {Continue, Stop} \cup { Error(e) : e \in ConsumerErrs }

\* one callback as the consumer saw it: cb its name, ret its answer, hdr /
\* ins its argument, off and idx the decoder offset and inst_index then
Call(cb, ret, h, i) ==
    [cb |-> cb, ret |-> ret, hdr |-> h, ins |-> i, off |-> offset,
     idx |-> inst_index]

\* OnAction with the arms confused: an Error is reported as a stop request
OnAction_ErrorAsStop(act) == ConsumerStopRequested

\* Parser::parse, the match on a callback's Action: the State parse returns
\* when it does not continue
OnAction(act) ==
    IF act.tag = "Stop" THEN ConsumerStopRequested ELSE ConsumerError(act.e)

----------------------------------------------------------------------------
(* Parser::new *)

Init ==
    /\ binary \in Binaries
    /\ offset = 0
    /\ limit = None
    /\ types = <<>>
    /\ inst_index = 0
    /\ pc = "initialize"
    /\ header = None
    /\ grammar = 0
    /\ rtype = None
    /\ rid = None
    /\ coperands = <<>>
    /\ loperand_index = 0
    /\ walk = Pending
    /\ inst = None
    /\ inst_start = 0
    /\ calls = <<>>
    /\ result = Pending

\* parse returns r
Return(r) ==
    /\ result' = r
    /\ pc' = "done"

\* Parser::parse: self.consumer.initialize() and the match on its Action
Initialize ==
    /\ pc = "initialize"
    /\ \E act \in Actions :
        /\ calls' = Append(calls, Call("initialize", act, None, None))
        /\ IF act = Continue
           THEN pc' = "parse_header" /\ result' = result
           ELSE Return(OnAction(act))
    /\ UNCHANGED <<binary, offset, limit, types, inst_index, header, grammar,
                   rtype, rid, coperands, loperand_index, walk, inst,
                   inst_start>>

\* parse_header that checks the magic as soon as the first word is there,
\* before it knows the header is complete
parse_header_MagicFirst(bytes, off, lim) ==
    LET w == DecWord(bytes, off, lim)
        ws == DecWords(bytes, off, lim, HEADER_NUM_WORDS)
        bad(e) == [ok |-> FALSE, err |-> e, hdr |-> None, off |-> w.off]
    IN IF ~w.ok THEN bad(HeaderIncomplete(w.err))
       ELSE IF w.val # MAGIC_NUMBER
       THEN IF w.val = swap_bytes(MAGIC_NUMBER)
            THEN bad(EndiannessUnsupported) ELSE bad(HeaderIncorrect)
       ELSE IF ~ws.ok THEN bad(HeaderIncomplete(ws.err))
       ELSE [ok |-> TRUE, err |-> Pending,
             hdr |-> Some(ModuleHeader(ws.val[1], ws.val[2], ws.val[3],
                                       ws.val[4], ws.val[5])),
             off |-> ws.off]

\* parse_header that takes every wrong magic for a wrong header, the
\* byte-swapped one too
parse_header_NoEndianness(bytes, off, lim) ==
    LET ws == DecWords(bytes, off, lim, HEADER_NUM_WORDS) IN
    IF ws.ok
    THEN IF ws.val[1] # MAGIC_NUMBER
         THEN [ok |-> FALSE, err |-> HeaderIncorrect, hdr |-> None,
               off |-> ws.off]
         ELSE [ok |-> TRUE, err |-> Pending,
               hdr |-> Some(ModuleHeader(ws.val[1], ws.val[2], ws.val[3],
                                         ws.val[4], ws.val[5])),
               off |-> ws.off]
    ELSE [ok |-> FALSE, err |-> HeaderIncomplete(ws.err), hdr |-> None,
          off |-> ws.off]

\* parse_header that hands the third and the fourth word over in each
\* other's place
parse_header_BoundForGenerator(bytes, off, lim) ==
    LET ws == DecWords(bytes, off, lim, HEADER_NUM_WORDS) IN
    IF ws.ok
    THEN LET words == ws.val IN
         IF words[1] # MAGIC_NUMBER
         THEN IF words[1] = swap_bytes(MAGIC_NUMBER)
              THEN [ok |-> FALSE, err |-> EndiannessUnsupported, hdr |-> None,
                    off |-> ws.off]
              ELSE [ok |-> FALSE, err |-> HeaderIncorrect, hdr |-> None,
                    off |-> ws.off]
         ELSE [ok |-> TRUE, err |-> Pending,
               hdr |-> Some(ModuleHeader(words[1], words[2], words[4],
                                         words[3], words[5])),
               off |-> ws.off]
    ELSE [ok |-> FALSE, err |-> HeaderIncomplete(ws.err), hdr |-> None,
          off |-> ws.off]

\* Parser::parse_header: Ok(header) or the State it fails with
parse_header(bytes, off, lim) ==
    LET ws == DecWords(bytes, off, lim, HEADER_NUM_WORDS) IN
    IF ws.ok
    THEN LET words == ws.val IN
         IF words[1] # MAGIC_NUMBER
         THEN IF words[1] = swap_bytes(MAGIC_NUMBER)
              THEN [ok |-> FALSE, err |-> EndiannessUnsupported, hdr |-> None,
                    off |-> ws.off]
              ELSE [ok |-> FALSE, err |-> HeaderIncorrect, hdr |-> None,
                    off |-> ws.off]
         ELSE [ok |-> TRUE, err |-> Pending,
               hdr |-> Some(ModuleHeader(words[1], words[2], words[3],
                                         words[4], words[5])),
               off |-> ws.off]
    ELSE [ok |-> FALSE, err |-> HeaderIncomplete(ws.err), hdr |-> None,
          off |-> ws.off]

\* Parser::parse: let header = try!(self.parse_header())
ParseHeader ==
    /\ pc = "parse_header"
    /\ \E h \in {parse_header(binary, offset, limit)} :
        /\ offset' = h.off
        /\ header' = h.hdr
        /\ IF h.ok
           THEN pc' = "consume_header" /\ result' = result
           ELSE Return(h.err)
    /\ UNCHANGED <<binary, limit, types, inst_index, grammar, rtype, rid,
                   coperands, loperand_index, walk, inst, inst_start, calls>>

\* ConsumeHeader with the consumer's Action dropped: the parse goes on
\* whatever consume_header answered
ConsumeHeader_ActionDropped ==
    /\ pc = "consume_header"
    /\ \E act \in Actions :
        calls' = Append(calls, Call("consume_header", act, header, None))
    /\ pc' = "parse_inst"
    /\ UNCHANGED <<binary, offset, limit, types, inst_index, header, grammar,
                   rtype, rid, coperands, loperand_index, walk, inst,
                   inst_start, result>>

\* Parser::parse: self.consumer.consume_header(header) and the match
ConsumeHeader ==
    /\ pc = "consume_header"
    /\ \E act \in Actions :
        /\ calls' = Append(calls, Call("consume_header", act, header, None))
        /\ IF act = Continue
           THEN pc' = "parse_inst" /\ result' = result
           ELSE Return(OnAction(act))
    /\ UNCHANGED <<binary, offset, limit, types, inst_index, header, grammar,
                   rtype, rid, coperands, loperand_index, walk, inst,
                   inst_start>>

----------------------------------------------------------------------------
(* Parser::parse_inst and the driver loop *)

\* OnInstErr that leaves the loop on every Err, not on Complete alone
OnInstErr_AlwaysBreak(e) ==
    pc' = "finalize" /\ result' = result

\* OnInstErr without the arm for Complete: every Err is returned
OnInstErr_ReturnAll(e) == Return(e)

\* OnInstErr going round the loop again on Complete
OnInstErr_CompleteContinues(e) ==
    IF e = Complete
    THEN pc' = "parse_inst" /\ result' = result
    ELSE Return(e)

\* Parser::parse, the match on parse_inst's Err: Complete leaves the loop
\* for finalize, any other State is returned
OnInstErr(e) ==
    IF e = Complete
    THEN pc' = "finalize" /\ result' = result
    ELSE Return(e)

\* check_first_word with the opcode looked up before the word count is
\* checked
check_first_word_LookupFirst(word, off, idx) ==
    LET wc == split_into_word_count_and_opcode(word)[1]
        opcode == split_into_word_count_and_opcode(word)[2]
    IN IF ~IsSome(lookup_opcode(opcode))
       THEN OpcodeUnknown(off - WORD_NUM_BYTES, idx, opcode)
       ELSE IF wc = 0
       THEN WordCountZero(off - WORD_NUM_BYTES, idx)
       ELSE Pending

\* check_first_word reporting the decoder's offset as it is after the read
check_first_word_OffsetAfterRead(word, off, idx) ==
    LET wc == split_into_word_count_and_opcode(word)[1]
        opcode == split_into_word_count_and_opcode(word)[2]
    IN IF wc = 0
       THEN WordCountZero(off, idx)
       ELSE IF IsSome(lookup_opcode(opcode))
       THEN Pending
       ELSE OpcodeUnknown(off, idx, opcode)

\* Parser::parse_inst, the checks on the first word once it is read: the
\* State returned, or Pending when the operands are to be parsed.  off is
\* the decoder's offset after the read.
check_first_word(word, off, idx) ==
    LET wc == split_into_word_count_and_opcode(word)[1]
        opcode == split_into_word_count_and_opcode(word)[2]
    IN IF wc = 0
       THEN WordCountZero(off - WORD_NUM_BYTES, idx)
       ELSE IF IsSome(lookup_opcode(opcode))
       THEN Pending
       ELSE OpcodeUnknown(off - WORD_NUM_BYTES, idx, opcode)

\* Parser::parse_inst, the outcome of reading the first word: Complete when
\* the decoder could not supply it
read_first_word(w, idx) ==
    IF w.ok THEN check_first_word(w.val, w.off, idx) ELSE Complete

\* Parser::parse_inst up to the call of parse_operands: the index is
\* advanced, the first word read and checked, the budget set
ParseInstBegin ==
    /\ pc = "parse_inst"
    /\ inst_index' = inst_index + 1
    /\ inst_start' = offset
    /\ \E w \in {DecWord(binary, offset, limit)} :
       \E r \in {read_first_word(w, inst_index + 1)} :
        /\ offset' = w.off
        /\ IF r = Pending
           THEN /\ limit' =
                     set_limit(split_into_word_count_and_opcode(w.val)[1] - 1)
                /\ grammar' = Unwrap(lookup_opcode(
                                  split_into_word_count_and_opcode(w.val)[2]))
                /\ pc' = "walk"
                /\ result' = result
           ELSE /\ OnInstErr(r)
                /\ UNCHANGED <<limit, grammar>>
    /\ rtype' = None
    /\ rid' = None
    /\ coperands' = <<>>
    /\ loperand_index' = 0
    /\ walk' = Pending
    /\ inst' = None
    /\ UNCHANGED <<binary, types, header, calls>>

\* parse_operands returns r
WalkReturn(r) ==
    /\ walk' = r
    /\ pc' = "end_inst"

\* no_more_coperands that takes every slot for a mandatory one
no_more_coperands_AllRequired(loperand, off, idx) == OperandExpected(off, idx)

\* no_more_coperands that takes every slot for an optional one
no_more_coperands_Break(loperand, off, idx) == OkResult

\* Parser::parse_operands, the slot reached with the budget exhausted: a
\* One slot is an error, a ZeroOrOne or ZeroOrMore slot ends the walk
no_more_coperands(loperand, off, idx) ==
    IF loperand.quantifier = "One"
    THEN OperandExpected(off, idx)
    ELSE OkResult

\* append_coperands that appends the two ids like any operand
append_coperands_IdsToo(cops, ops, isId) == cops \o ops

\* append_coperands that appends what a slot decoded last word first: the
\* parameters of an enumerant come before it
append_coperands_ParametersFirst(cops, ops, isId) ==
    IF isId THEN cops
    ELSE cops \o [j \in 1..Len(ops) |-> ops[Len(ops) + 1 - j]]

\* Parser::parse_operands, what a dispatched slot adds to coperands: the
\* ids of the result type and of the result are kept apart, every other
\* operand decoded is appended
append_coperands(cops, ops, isId) ==
    IF isId THEN cops ELSE cops \o ops

\* next_loperand_index going on to the next slot after every operand
next_loperand_index_Advance(loperand, index) == index + 1

\* Parser::parse_operands, the match on the quantifier after a dispatch: the
\* index of the slot to dispatch next
next_loperand_index(loperand, index) ==
    IF loperand.quantifier = "ZeroOrMore" THEN index ELSE index + 1

\* Parser::parse_operands: one pass of the while loop, or its exit
WalkStep ==
    /\ pc = "walk"
    /\ LET sig == GInstTable[grammar] IN
       IF loperand_index < Len(sig)
       THEN LET loperand == sig[loperand_index + 1]
                has_more_coperands == ~limit_reached(limit)
            IN IF has_more_coperands
               THEN LET isId == loperand.kind \in {"IdResultType", "IdResult"}
                    IN \E r \in
                         {IF isId
                          THEN Dec32("Id", binary, offset, limit)
                          ELSE IF loperand.kind
                                    = "LiteralContextDependentNumber"
                          THEN parse_literal(Unwrap(rtype), types,
                                             inst_index, binary, offset,
                                             limit)
                          ELSE parse_operand(loperand.kind, binary, offset,
                                             limit)} :
                       /\ offset' = r.off
                       /\ limit' = r.lim
                       /\ IF ~r.ok
                          THEN /\ WalkReturn(r.err)
                               /\ UNCHANGED <<rtype, rid, coperands,
                                              loperand_index>>
                          ELSE /\ rtype' = IF loperand.kind = "IdResultType"
                                           THEN Some(r.ops[1].val) ELSE rtype
                               /\ rid' = IF loperand.kind = "IdResult"
                                         THEN Some(r.ops[1].val) ELSE rid
                               /\ coperands' =
                                    append_coperands(coperands, r.ops, isId)
                               /\ loperand_index' =
                                    next_loperand_index(loperand,
                                                        loperand_index)
                               /\ UNCHANGED <<walk, pc>>
               ELSE /\ WalkReturn(no_more_coperands(loperand, offset,
                                                    inst_index))
                    /\ UNCHANGED <<offset, limit, rtype, rid, coperands,
                                   loperand_index>>
       ELSE /\ WalkReturn(OkResult)
            /\ UNCHANGED <<offset, limit, rtype, rid, coperands,
                           loperand_index>>
    /\ UNCHANGED <<binary, types, inst_index, header, grammar, inst,
                   inst_start, calls, result>>

\* parse_inst_result reporting the offset of the last word read
parse_inst_result_OffsetOfLastRead(r, lim, off, idx) ==
    IF ~limit_reached(lim)
    THEN OperandExceeded(off - WORD_NUM_BYTES, idx)
    ELSE r

\* parse_inst_result without the check of the budget
parse_inst_result_NoExceeded(r, lim, off, idx) == r

\* Parser::parse_inst after parse_operands returned: what parse_inst
\* returns, given the walker's result r
parse_inst_result(r, lim, off, idx) ==
    IF ~limit_reached(lim) THEN OperandExceeded(off, idx) ELSE r

\* Parser::parse_inst from the return of parse_operands, and the driver's
\* match on its result
ParseInstEnd ==
    /\ pc = "end_inst"
    /\ \E r \in {parse_inst_result(walk, limit, offset, inst_index)} :
        IF r = OkResult
        THEN /\ inst' = Some(Instruction(grammar, rtype, rid, coperands))
             /\ limit' = clear_limit
             /\ pc' = "consume_inst"
             /\ result' = result
        ELSE /\ inst' = None
             /\ limit' = IF limit_reached(limit) THEN clear_limit ELSE limit
             /\ OnInstErr(r)
    /\ UNCHANGED <<binary, offset, types, inst_index, header, grammar, rtype,
                   rid, coperands, loperand_index, walk, inst_start, calls>>

\* ConsumeInstruction with the tracking moved behind the callback: an
\* instruction is tracked only when the consumer let the parse go on
ConsumeInstruction_TrackOnContinue ==
    /\ pc = "consume_inst"
    /\ \E act \in Actions :
        /\ calls' = Append(calls, Call("consume_instruction", act, None, inst))
        /\ types' = IF act = Continue THEN track(types, Unwrap(inst))
                    ELSE types
        /\ IF act = Continue
           THEN pc' = "parse_inst" /\ result' = result
           ELSE Return(OnAction(act))
    /\ UNCHANGED <<binary, offset, limit, inst_index, header, grammar, rtype,
                   rid, coperands, loperand_index, walk, inst, inst_start>>

\* Parser::parse: self.type_tracker.track(&inst), then
\* self.consumer.consume_instruction(inst) and the match on its Action
ConsumeInstruction ==
    /\ pc = "consume_inst"
    /\ types' = track(types, Unwrap(inst))
    /\ \E act \in Actions :
        /\ calls' = Append(calls, Call("consume_instruction", act, None, inst))
        /\ IF act = Continue
           THEN pc' = "parse_inst" /\ result' = result
           ELSE Return(OnAction(act))
    /\ UNCHANGED <<binary, offset, limit, inst_index, header, grammar, rtype,
                   rid, coperands, loperand_index, walk, inst, inst_start>>

\* Parser::parse: self.consumer.finalize(), the match, and Ok(())
Finalize ==
    /\ pc = "finalize"
    /\ \E act \in Actions :
        /\ calls' = Append(calls, Call("finalize", act, None, None))
        /\ IF act = Continue
           THEN Return(OkResult)
           ELSE Return(OnAction(act))
    /\ UNCHANGED <<binary, offset, limit, types, inst_index, header, grammar,
                   rtype, rid, coperands, loperand_index, walk, inst,
                   inst_start>>

Next ==
    \/ Initialize
    \/ ParseHeader
    \/ ConsumeHeader
    \/ ParseInstBegin
    \/ WalkStep
    \/ ParseInstEnd
    \/ ConsumeInstruction
    \/ Finalize

Spec == Init /\ [][Next]_vars

\* parse runs on: every step is straight-line code of parse or a callback of
\* the consumer, which returns
FairSpec == Spec /\ WF_vars(Next)

----------------------------------------------------------------------------
(* Vocabulary of the properties *)

Done == pc = "done"
NumCalls == Len(calls)
LastCall == calls[Len(calls)]
CallsOf(cb) == { i \in 1..Len(calls) : calls[i].cb = cb }
\* the first word of the input, when it has one
FirstWordOf(bytes) == BytesToWord(SubSeq(bytes, 1, WORD_NUM_BYTES))
HeaderLen == HEADER_NUM_WORDS * WORD_NUM_BYTES
\* the word that begins at byte offset off of the input
WordAt(off) == BytesToWord(SubSeq(binary, off + 1, off + WORD_NUM_BYTES))
HasWordAt(off) == off + WORD_NUM_BYTES <= Len(binary)
\* the States parse_header and parse_inst report to the caller of parse
ParseErrorTags ==
    {"HeaderIncomplete", "HeaderIncorrect", "EndiannessUnsupported",
     "WordCountZero", "OpcodeUnknown", "OperandExpected", "OperandExceeded",
     "OperandError", "TypeUnsupported"}

----------------------------------------------------------------------------
(* C1 *)

\* the callbacks made so far are initialize, consume_header,
\* consume_instruction*, finalize, in that order, each made only after the
\* one before it answered Continue
CallOrder ==
    /\ \A i \in 1..Len(calls) :
        /\ (calls[i].cb = "initialize") <=> (i = 1)
        /\ (calls[i].cb = "consume_header") <=> (i = 2)
        /\ calls[i].cb = "consume_header" =>
              /\ Len(binary) >= HeaderLen
              /\ FirstWordOf(binary) = MAGIC_NUMBER
        /\ calls[i].cb \in {"consume_instruction", "finalize"} => i >= 3
        /\ calls[i].cb = "finalize" => i = Len(calls)
        /\ i > 1 => calls[i - 1].ret = Continue
    /\ Done => Len(calls) >= 1

\* C1: in every run of parse the callbacks occur in the order initialize,
\* consume_header, consume_instruction*, finalize: initialize exactly once
\* and first, consume_header at most once and only after initialize answered
\* Continue and the header decoded with the right magic, every
\* consume_instruction after consume_header answered Continue, finalize at
\* most once and last; and once finalize was called or parse has returned,
\* no callback is made.
C1_CallbackOrder ==
    /\ []CallOrder
    /\ [][(result # Pending
           \/ (Len(calls) >= 1 /\ LastCall.cb = "finalize"))
          => calls' = calls]_vars

\* a whole run: header, two instructions, finalize, Ok
C1_Witness ==
    /\ result = OkResult
    /\ Len(calls) = 5
    /\ calls[3].cb = "consume_instruction"
    /\ calls[4].cb = "consume_instruction"
    /\ calls[5].cb = "finalize"

----------------------------------------------------------------------------
(* C2 *)

\* C2: when a callback answers anything but Continue, parse returns in that
\* very step, reading no input: Err(ConsumerStopRequested) for Stop,
\* Err(ConsumerError(e)) with the consumer's own e for Error(e); and once
\* parse has returned there is no callback and no read.
C2_StopIsImmediate ==
    [][/\ (calls' # calls /\ calls'[Len(calls')].ret # Continue) =>
            /\ pc' = "done"
            /\ offset' = offset
            /\ result' = IF calls'[Len(calls')].ret = Stop
                         THEN ConsumerStopRequested
                         ELSE ConsumerError(calls'[Len(calls')].ret.e)
       /\ Done => (calls' = calls /\ offset' = offset /\ result' = result)
      ]_vars

\* consume_instruction answered Error(2) and parse returned it
C2_Witness ==
    /\ Done
    /\ Len(calls) >= 3
    /\ LastCall.cb = "consume_instruction"
    /\ LastCall.ret = Error(2)
    /\ result = ConsumerError(2)

----------------------------------------------------------------------------
(* C3 *)

NumConsumed == Cardinality(CallsOf("consume_instruction"))
FinalizeCalled == CallsOf("finalize") # {}
\* initialize, consume_header and every consume_instruction answered
\* Continue
AllConsumed ==
    /\ Len(calls) >= 2
    /\ \A i \in 1..Len(calls) :
         calls[i].cb # "finalize" => calls[i].ret = Continue

----------------------------------------------------------------------------
(* C4 *)

\* the last parse_inst found fewer than four bytes, but not none, where an
\* instruction's first word should begin
ShortFirstWord ==
    /\ inst_index >= 1
    /\ pc \in {"finalize", "done"}
    /\ inst_start < Len(binary)
    /\ ~HasWordAt(inst_start)

\* C4: at an instruction boundary the end of the input is a normal
\* completion only when zero bytes remain; with 1 to 3 bytes left parse
\* returns a parse error, finalize is not called and Ok is not returned.
C4_ShortReadIsError ==
    ShortFirstWord =>
        /\ pc = "done"
        /\ result.tag \in ParseErrorTags
        /\ ~FinalizeCalled

----------------------------------------------------------------------------
(* C5 *)

\* C5: parse_inst returns OperandExceeded only when the operand walker
\* returned Ok with words of the budget left, and every error the walker
\* returns (OperandExpected, OperandError, TypeUnsupported) reaches the
\* caller unchanged.
C5_WalkerErrorUnchanged ==
    Done =>
        /\ result.tag = "OperandExceeded" => walk = OkResult
        /\ walk.tag \in {"OperandExpected", "OperandError", "TypeUnsupported"}
              => result = walk

----------------------------------------------------------------------------
(* C6 *)

\* the current instruction is an OpConstant / OpSpecConstant whose result
\* type the tracker resolves to a width other than 32 and 64, and the
\* budget still holds a word when the literal's turn comes
UnsupportedLiteral ==
    /\ grammar \in {Op.Constant, Op.SpecConstant}
    /\ pc \in {"end_inst", "done"}
    /\ inst_index >= 1
    /\ IsSome(rtype) /\ IsSome(rid)
    /\ loperand_index = 2
    /\ IsSome(resolve(types, Unwrap(rtype)))
    /\ Unwrap(resolve(types, Unwrap(rtype))).size \notin {32, 64}
    /\ ~limit_reached(limit)
    /\ NumConsumed = inst_index - 1

\* C6: such an instruction makes parse return TypeUnsupported(offset, index)
\* with offset the byte position of the literal and index the 1-based
\* instruction number.
C6_TypeUnsupportedReturned ==
    (UnsupportedLiteral /\ Done) =>
        result = TypeUnsupported(inst_start + 3 * WORD_NUM_BYTES, inst_index)

----------------------------------------------------------------------------
(* C7 *)

\* C7: with initialize answering Continue, every input shorter than 20
\* bytes, whatever it holds, makes parse return
\* HeaderIncomplete(StreamExpected(len)), and consume_header is never called.
C7_ShortHeader ==
    Len(binary) < HeaderLen =>
        /\ CallsOf("consume_header") = {}
        /\ (Done /\ calls[1].ret = Continue) =>
              /\ result = HeaderIncomplete(StreamExpected(Len(binary)))
              /\ Len(calls) = 1

\* a header cut inside its second word, with a wrong magic
C7_Witness ==
    /\ Len(binary) = 6
    /\ FirstWordOf(binary) # MAGIC_NUMBER
    /\ Done
    /\ calls[1].ret = Continue
    /\ result = HeaderIncomplete(StreamExpected(6))

----------------------------------------------------------------------------
(* C8 *)

WrongMagic == Len(binary) >= HeaderLen /\ FirstWordOf(binary) # MAGIC_NUMBER
WrongMagicState ==
    IF FirstWordOf(binary) = swap_bytes(MAGIC_NUMBER)
    THEN EndiannessUnsupported
    ELSE HeaderIncorrect
NoCallPastInitialize ==
    /\ CallsOf("consume_header") = {}
    /\ CallsOf("consume_instruction") = {}
    /\ CallsOf("finalize") = {}

\* C8 as stated: for every input of at least 20 bytes whose first word is
\* not the magic, parse returns EndiannessUnsupported when the word is the
\* magic byte-reversed and HeaderIncorrect otherwise, and consume_header,
\* consume_instruction and finalize are never called.
C8_AsStated ==
    WrongMagic =>
        /\ NoCallPastInitialize
        /\ Done => result = WrongMagicState

\* C8, amended: the same when initialize answered Continue; when it did
\* not, parse returns the consumer's stop or error and the header is not
\* read.
C8_WrongMagic ==
    WrongMagic =>
        /\ NoCallPastInitialize
        /\ (Done /\ calls[1].ret = Continue) => result = WrongMagicState
        /\ (Done /\ calls[1].ret # Continue) =>
              (result = OnAction(calls[1].ret) /\ offset = 0)

\* the byte-swapped magic was refused
C8_Witness ==
    /\ WrongMagic
    /\ FirstWordOf(binary) = swap_bytes(MAGIC_NUMBER)
    /\ Done
    /\ calls[1].ret = Continue
    /\ result = EndiannessUnsupported

----------------------------------------------------------------------------
(* C9, C10 *)

\* parse_inst has read the first word of instruction inst_index, which
\* begins at inst_start
FirstWordRead == inst_index >= 1 /\ HasWordAt(inst_start)
\* its high and its low 16 bits
WordCountAtStart == WordAt(inst_start) \div 65536
OpcodeAtStart == WordAt(inst_start) % 65536

\* C9: a first word with word count 0 makes parse return
\* WordCountZero(offset, index), offset the byte offset at which that word
\* begins (4 before the decoder's position after reading it), index the
\* number of instructions consumed plus one; known opcode or not.
C9_WordCountZero ==
    (FirstWordRead /\ WordCountAtStart = 0) =>
        /\ Done
        /\ result = WordCountZero(inst_start, inst_index)
        /\ result.offset = offset - WORD_NUM_BYTES
        /\ inst_index = NumConsumed + 1

\* the second instruction has word count 0 and an unknown opcode
C9_Witness ==
    /\ FirstWordRead
    /\ WordCountAtStart = 0
    /\ OpcodeAtStart \notin DOMAIN GInstTable
    /\ inst_index = 2
    /\ result.tag = "WordCountZero"

\* C10: a first word with a non-zero word count and an opcode the grammar
\* table does not hold makes parse return OpcodeUnknown(offset, index,
\* opcode), offset the byte offset at which the word begins, index the
\* 1-based instruction number, opcode the word's low 16 bits; no operand
\* word of the instruction is read.
C10_OpcodeUnknown ==
    (FirstWordRead /\ WordCountAtStart # 0
     /\ OpcodeAtStart \notin DOMAIN GInstTable) =>
        /\ Done
        /\ result = OpcodeUnknown(inst_start, inst_index, OpcodeAtStart)
        /\ inst_index = NumConsumed + 1
        /\ offset = inst_start + WORD_NUM_BYTES

\* opcode 0xffff with word count 2, as second instruction: its operand word
\* is in the input and left unread
C10_Witness ==
    /\ FirstWordRead
    /\ WordCountAtStart = 2
    /\ OpcodeAtStart = 65535
    /\ inst_index = 2
    /\ HasWordAt(inst_start + WORD_NUM_BYTES)
    /\ result.tag = "OpcodeUnknown"

----------------------------------------------------------------------------
(* C11 *)

\* the signature of the instruction being parsed
Signature == GInstTable[grammar]
\* the words the decoder has consumed for the current instruction, its
\* first word included
WordsConsumed == (offset - inst_start) \div WORD_NUM_BYTES

\* the walker matched every slot of the signature and returned Ok with
\* words of the declared word count left over
ExtraOperand ==
    /\ pc \in {"end_inst", "done"}
    /\ FirstWordRead
    /\ walk = OkResult
    /\ loperand_index = Len(Signature)
    /\ IsSome(limit) /\ ~limit_reached(limit)

\* C11: when every slot of the signature has been matched and words of the
\* declared word count remain, parse returns OperandExceeded(offset, index):
\* offset is the byte offset of the first word not consumed, which lies
\* inside the instruction's declared words, index is the 1-based number of
\* the instruction; the instruction is not passed to the consumer.
C11_OperandExceeded ==
    ExtraOperand =>
        /\ WordsConsumed < WordCountAtStart
        /\ WordsConsumed = WordCountAtStart - Unwrap(limit)
        /\ Done =>
            /\ result = OperandExceeded(
                            inst_start + WORD_NUM_BYTES * WordsConsumed,
                            inst_index)
            /\ result.offset = offset
            /\ NumConsumed = inst_index - 1
            /\ LastCall.cb # "finalize"

\* OpMemoryModel with word count 4 as second instruction: the word after
\* its two operands is the extra one
C11_Witness ==
    /\ ExtraOperand
    /\ Done
    /\ OpcodeAtStart = Op.MemoryModel
    /\ inst_index = 2
    /\ HasWordAt(offset)
    /\ result = OperandExceeded(inst_start + 3 * WORD_NUM_BYTES, 2)

----------------------------------------------------------------------------
(* C12 *)

\* the walker stands at a One slot with the word budget exhausted
MissingOperand ==
    /\ pc = "walk"
    /\ loperand_index < Len(Signature)
    /\ Signature[loperand_index + 1].quantifier = "One"
    /\ limit_reached(limit)

\* C12: whenever the word budget is exhausted when the walker comes to a
\* slot with quantifier One, the walker returns OperandExpected(offset,
\* index) reading nothing, offset being the byte position just after the
\* declared words, where the missing operand would begin; parse returns
\* that very State and the instruction is not emitted.
C12_OperandExpected ==
    /\ [][MissingOperand =>
            /\ walk' = OperandExpected(offset, inst_index)
            /\ offset' = offset
            /\ offset = inst_start + WORD_NUM_BYTES * WordCountAtStart]_vars
    /\ [](walk.tag = "OperandExpected" =>
            /\ inst = None
            /\ Done =>
                /\ result = walk
                /\ result.index = NumConsumed + 1)

\* OpConstant with word count 3: the literal is missing, and the word at
\* the offset reported belongs to the next instruction
C12_Witness ==
    /\ Done
    /\ result = OperandExpected(inst_start + 3 * WORD_NUM_BYTES, inst_index)
    /\ OpcodeAtStart = Op.Constant
    /\ loperand_index = 2
    /\ HasWordAt(result.offset)

----------------------------------------------------------------------------
(* C13 *)

\* the byte offset at which the instruction of the i-th callback began: the
\* decoder's offset at the callback before it
StartOfCall(i) == calls[i - 1].off

\* C13: for every instruction passed to consume_instruction the decoder
\* consumed exactly the word count declared in the high 16 bits of its
\* first word: the offset at the callback is 4 * wc past the offset at
\* which the instruction began, which is where the previous one ended.
C13_WordsConsumedIsWordCount ==
    /\ pc = "consume_inst" =>
          offset = inst_start + WORD_NUM_BYTES * WordCountAtStart
    /\ \A i \in CallsOf("consume_instruction") :
          /\ HasWordAt(StartOfCall(i))
          /\ calls[i].off = StartOfCall(i)
                + WORD_NUM_BYTES * (WordAt(StartOfCall(i)) \div 65536)
          /\ WordAt(StartOfCall(i)) % 65536 = Unwrap(calls[i].ins).opcode

\* three instructions consumed, the second of three words, the third of
\* four
C13_Witness ==
    /\ Len(calls) >= 5
    /\ calls[5].cb = "consume_instruction"
    /\ calls[4].off - calls[3].off = 3 * WORD_NUM_BYTES
    /\ calls[5].off - calls[4].off = 4 * WORD_NUM_BYTES

----------------------------------------------------------------------------
(* C14 *)

\* the instruction the i-th callback received
InstOf(i) == Unwrap(calls[i].ins)
\* the step is a consume_instruction callback
InstConsumed ==
    calls' # calls /\ calls'[Len(calls')].cb = "consume_instruction"

\* track applied, in stream order, to the instructions among the first n
\* callbacks
RECURSIVE TrackedUpTo(_)
TrackedUpTo(n) ==
    IF n = 0 THEN <<>>
    ELSE IF calls[n].cb = "consume_instruction"
         THEN track(TrackedUpTo(n - 1), InstOf(n))
         ELSE TrackedUpTo(n - 1)

\* C14: while instruction k+1 is parsed (its context-dependent literal
\* resolved) the tracker is track applied to instructions 1..k in stream
\* order; an instruction is tracked in the step that hands it to
\* consume_instruction, whatever the consumer answers, and the tracker
\* changes in no other step; so an OpTypeInt / OpTypeFloat with a result id
\* has its record before any later instruction is parsed or consumed.
C14_TrackerOrder ==
    /\ [](/\ types = TrackedUpTo(Len(calls))
          /\ pc \in {"walk", "end_inst", "consume_inst"} =>
                NumConsumed = inst_index - 1
          /\ \A i \in CallsOf("consume_instruction") :
                (InstOf(i).opcode \in {Op.TypeInt, Op.TypeFloat}
                 /\ IsSome(InstOf(i).result_id))
                    => Unwrap(InstOf(i).result_id) \in DOMAIN types)
    /\ [][/\ InstConsumed =>
                /\ inst = calls'[Len(calls')].ins
                /\ types' = track(types, Unwrap(inst))
          /\ types' # types => InstConsumed]_vars

\* the consumer stopped the parse at an OpTypeFloat, which is tracked all
\* the same
C14_Witness ==
    /\ Done
    /\ result = ConsumerStopRequested
    /\ LastCall.cb = "consume_instruction"
    /\ InstOf(Len(calls)).opcode = Op.TypeFloat
    /\ types = (1 :> Float(32))

----------------------------------------------------------------------------
(* C15, C16 *)

\* the walker has read the result type and the result id of an OpConstant /
\* OpSpecConstant
ConstantBegun ==
    /\ pc \in {"walk", "end_inst", "consume_inst"}
    /\ grammar \in {Op.Constant, Op.SpecConstant}
    /\ loperand_index >= 2
\* and its literal too
LiteralDecoded == ConstantBegun /\ loperand_index = 3
\* the tracker's record of its result type (an Option)
TrackedType == resolve(types, Unwrap(rtype))
\* the byte offset of the literal's first word
LiteralAt == inst_start + 3 * WORD_NUM_BYTES
\* the operand a literal of type t is, being made of the words lo and hi
LiteralOf(t, lo, h) ==
    IF t.kind = "Integer"
    THEN IF t.size = 32 THEN Operand("LiteralInt32", lo)
         ELSE Operand64("LiteralInt64", lo, h)
    ELSE IF t.size = 32 THEN Operand("LiteralFloat32", lo)
         ELSE Operand64("LiteralFloat64", lo, h)
\* the walker went through the literal slot, or parse_inst is done with the
\* instruction
LiteralAttempted ==
    ConstantBegun /\ (loperand_index = 3 \/ pc = "end_inst")

\* C15: for an OpConstant / OpSpecConstant whose result type is tracked as
\* Integer or Float of 32 or 64 bits, signed or not, the literal is decoded
\* by that type: 32 bits consume exactly one word and give LiteralInt32 /
\* LiteralFloat32 of that word; 64 bits consume exactly two words and give
\* LiteralInt64 / LiteralFloat64 with the first word as the low and the
\* second as the high 32 bits; and the literal is decoded whenever the
\* budget and the input hold those words.
C15_LiteralByTrackedType ==
    (ConstantBegun /\ IsSome(TrackedType)
     /\ Unwrap(TrackedType).size \in {32, 64}) =>
        LET t == Unwrap(TrackedType)
            n == t.size \div 32
        IN /\ LiteralDecoded =>
                /\ HasWordAt(LiteralAt + (n - 1) * WORD_NUM_BYTES)
                /\ coperands = <<LiteralOf(t, WordAt(LiteralAt),
                                    WordAt(LiteralAt + (n - 1) * WORD_NUM_BYTES))>>
                /\ offset = LiteralAt + n * WORD_NUM_BYTES
           /\ (LiteralAttempted /\ WordCountAtStart >= 3 + n
               /\ HasWordAt(LiteralAt + (n - 1) * WORD_NUM_BYTES))
                 => LiteralDecoded

\* a constant of an unsigned 64-bit integer type, decoded from two words
C15_Witness ==
    /\ pc = "consume_inst"
    /\ LiteralDecoded
    /\ TrackedType = Some(Integer(64, FALSE))
    /\ coperands = <<Operand64("LiteralInt64", 305419896, 7)>>

\* C16: for an OpConstant / OpSpecConstant whose result type has no record
\* in the tracker the literal is decoded as exactly one word and is a
\* LiteralInt32 of that word, whenever the budget and the input hold a word
\* for it; the missing record is never reported as an error.
C16_UntrackedIsInt32 ==
    (ConstantBegun /\ ~IsSome(TrackedType)) =>
        /\ LiteralDecoded =>
              /\ HasWordAt(LiteralAt)
              /\ coperands = <<Operand("LiteralInt32", WordAt(LiteralAt))>>
              /\ offset = LiteralAt + WORD_NUM_BYTES
        /\ (LiteralAttempted /\ WordCountAtStart >= 4 /\ HasWordAt(LiteralAt))
              => LiteralDecoded
        /\ walk.tag # "TypeUnsupported"
        /\ walk.tag = "OperandError" => ~HasWordAt(LiteralAt)

\* an OpSpecConstant of a type never defined, parsed
C16_Witness ==
    /\ pc = "consume_inst"
    /\ grammar = Op.SpecConstant
    /\ types = <<>>
    /\ Unwrap(inst).operands = <<Operand("LiteralInt32", 9)>>

----------------------------------------------------------------------------
(* C17 *)

\* no instruction consumed after the i-th callback has the result id of the
\* instruction of the i-th
LatestWithItsId(i) ==
    \A j \in CallsOf("consume_instruction") :
        j > i => InstOf(j).result_id # InstOf(i).result_id

\* C17: after an OpTypeInt with result id r and operands LiteralInt32(bits),
\* LiteralInt32(sign) is tracked, the tracker maps r to Integer(bits,
\* signed) with signed true exactly when sign is 1; after an OpTypeFloat
\* with result id r and operand LiteralInt32(bits) it maps r to Float(bits);
\* of two definitions of one id the later is the record.
C17_TrackTypeDefinition ==
    \A i \in CallsOf("consume_instruction") :
        (InstOf(i).opcode \in {Op.TypeInt, Op.TypeFloat}
         /\ IsSome(InstOf(i).result_id)
         /\ LatestWithItsId(i)) =>
            LET r == Unwrap(InstOf(i).result_id)
                ops == InstOf(i).operands
            IN /\ r \in DOMAIN types
               /\ \A k \in 1..Len(ops) : ops[k].kind = "LiteralInt32"
               /\ InstOf(i).opcode = Op.TypeInt =>
                     types[r] = Integer(ops[1].val, ops[2].val = 1)
               /\ InstOf(i).opcode = Op.TypeFloat =>
                     types[r] = Float(ops[1].val)

\* OpTypeInt %1 32 with signedness word 2 defined id 1 again, after an
\* OpTypeFloat: the record is an unsigned integer
C17_Witness ==
    /\ Len(calls) = 4
    /\ calls[4].cb = "consume_instruction"
    /\ InstOf(3).opcode = Op.TypeFloat
    /\ InstOf(3).result_id = Some(1)
    /\ InstOf(4).opcode = Op.TypeInt
    /\ InstOf(4).operands[2].val = 2
    /\ types = (1 :> Integer(32, FALSE))

----------------------------------------------------------------------------
(* C18 *)

\* C18: when an instruction that defines no type and has a result type t
\* and a result id r is tracked, and t had a record before, then r has that
\* same record afterwards.
C18_ResultTakesTypeOfResultType ==
    [][InstConsumed =>
         LET i == Unwrap(calls'[Len(calls')].ins) IN
         (~is_type(i.opcode) /\ IsSome(i.result_type) /\ IsSome(i.result_id)
          /\ Unwrap(i.result_type) \in DOMAIN types) =>
            /\ Unwrap(i.result_id) \in DOMAIN types'
            /\ types'[Unwrap(i.result_id)] = types[Unwrap(i.result_type)]
      ]_vars

\* %2 = OpConstant of the 64-bit type %1, then %3 = OpConstant of "type"
\* %2, whose literal was decoded from two words
C18_Witness ==
    /\ Len(calls) = 5
    /\ calls[5].cb = "consume_instruction"
    /\ InstOf(4).opcode = Op.Constant
    /\ InstOf(4).result_type = Some(1)
    /\ InstOf(4).result_id = Some(2)
    /\ InstOf(5).result_type = Some(2)
    /\ InstOf(5).operands = <<Operand64("LiteralInt64", 9, 305419896)>>
    /\ DOMAIN types = {1, 2, 3}
    /\ types[2] = types[1]
    /\ types[3] = types[1]

----------------------------------------------------------------------------
(* C19 *)

\* the input, a whole number of words, ends before the words the current
\* instruction declares, and a read of an operand word failed
TruncatedOperand ==
    /\ pc \in {"end_inst", "done"}
    /\ FirstWordRead
    /\ Len(binary) % WORD_NUM_BYTES = 0
    /\ inst_start + WORD_NUM_BYTES * WordCountAtStart > Len(binary)
    /\ walk.tag = "OperandError"

\* C19: when the input ends before the operand words an instruction
\* declares, so that an operand word cannot be read, parse returns
\* OperandError(StreamExpected(n)), n the end of the input, where the
\* missing word would begin; for every declared word count larger than the
\* words present.
C19_TruncatedIsOperandError ==
    TruncatedOperand =>
        /\ walk = OperandError(StreamExpected(Len(binary)))
        /\ offset = Len(binary)
        /\ Done => result = OperandError(StreamExpected(Len(binary)))

----------------------------------------------------------------------------
(* C20 *)

\* an OpDecorate of three words whose decoration carries a parameter: the
\* budget ends with the decoration word
EnumParamMissing ==
    /\ pc \in {"end_inst", "done"}
    /\ FirstWordRead
    /\ OpcodeAtStart = Op.Decorate
    /\ WordCountAtStart = 3
    /\ HasWordAt(inst_start + 2 * WORD_NUM_BYTES)
    /\ EnumParams("Decoration", WordAt(inst_start + 2 * WORD_NUM_BYTES))
          # <<>>

\* C20: when the word budget runs out inside the parameters of an
\* enumerant, parse returns OperandError(StreamExpected(offset)), offset the
\* byte position where the missing parameter word would begin, and not
\* OperandExpected; the instruction is not emitted.
C20_BudgetEndsInParameters ==
    EnumParamMissing =>
        /\ walk = OperandError(StreamExpected(inst_start + 3 * WORD_NUM_BYTES))
        /\ offset = inst_start + 3 * WORD_NUM_BYTES
        /\ inst = None
        /\ Done =>
            /\ result = walk
            /\ NumConsumed = inst_index - 1
            /\ LastCall.cb # "finalize"

\* OpDecorate %5 SpecId with word count 3 as second instruction; the word
\* at the offset reported is in the input, it belongs to the next
\* instruction
C20_Witness ==
    /\ EnumParamMissing
    /\ Done
    /\ inst_index = 2
    /\ WordAt(inst_start + 2 * WORD_NUM_BYTES) = Decoration.SpecId
    /\ HasWordAt(inst_start + 3 * WORD_NUM_BYTES)
    /\ result = OperandError(StreamExpected(inst_start + 3 * WORD_NUM_BYTES))

----------------------------------------------------------------------------
(* C21 *)

\* the instruction parse_inst has gone through is an OpSource that declares
\* wc words, all of them in the input
SourceOfWords(wc) ==
    /\ pc \in {"end_inst", "consume_inst"}
    /\ FirstWordRead
    /\ OpcodeAtStart = Op.Source
    /\ WordCountAtStart = wc
    /\ HasWordAt(inst_start + (wc - 1) * WORD_NUM_BYTES)
\* the walker returned Ok having consumed every word declared
WalkedAll ==
    /\ walk = OkResult
    /\ offset = inst_start + WORD_NUM_BYTES * WordCountAtStart
    /\ pc = "end_inst" => limit_reached(limit)

\* the first n operands of OpSource (SourceLanguage, LiteralInteger,
\* IdRef?) as the words after the instruction's first word
SourceOperands(n) ==
    [k \in 1..n |->
        Operand(<<"SourceLanguage", "LiteralInt32", "IdRef">>[k],
                WordAt(inst_start + k * WORD_NUM_BYTES))]

\* C21: OpSource has two One slots and then two ZeroOrOne slots.  When its
\* word budget ends after the two mandatory operands, or after the optional
\* id too, the walker returns Ok, no OperandExpected is raised, and the
\* operand list is that prefix of the full list; with the string present
\* the list is the full one.  Without the second mandatory operand the
\* walker returns OperandExpected.
C21_TrailingOptionalOmitted ==
    /\ SourceOfWords(3) =>
          /\ WalkedAll
          /\ coperands = SourceOperands(2)
    /\ SourceOfWords(4) =>
          /\ WalkedAll
          /\ coperands = SourceOperands(3)
    /\ (SourceOfWords(5) /\ WalkedAll) =>
          /\ Len(coperands) = 4
          /\ SubSeq(coperands, 1, 3) = SourceOperands(3)
          /\ coperands[4].kind = "LiteralString"
    /\ SourceOfWords(2) =>
          walk = OperandExpected(inst_start + 2 * WORD_NUM_BYTES, inst_index)
    /\ (pc = "consume_inst" /\ grammar = Op.Source) =>
          /\ Unwrap(inst).operands = coperands
          /\ Len(coperands) \in 2..4
          /\ Len(coperands) <= 3 => Len(coperands) = WordCountAtStart - 1

\* OpSource GLSL 450 with word count 3, parsed with two operands
C21_Witness ==
    /\ SourceOfWords(3)
    /\ pc = "consume_inst"
    /\ Unwrap(inst).operands
         = <<Operand("SourceLanguage", 2), Operand("LiteralInt32", 450)>>

----------------------------------------------------------------------------
(* C22 *)

\* the signature has a slot of the kind
HasSlot(sig, kind) == \E k \in 1..Len(sig) : sig[k].kind = kind
\* the words the ids of the result type and of the result take
NumIdWords(sig) ==
    (IF HasSlot(sig, "IdResultType") THEN 1 ELSE 0)
    + (IF HasSlot(sig, "IdResult") THEN 1 ELSE 0)

\* the operands ops are what the words of the input from byte offset off on
\* hold, one after the other: the offset after the last of them, or -1
RECURSIVE OperandsAt(_, _)
OperandsAt(ops, off) ==
    IF off < 0 \/ ops = <<>> THEN off
    ELSE LET o == Head(ops) IN
         IF o.kind = "LiteralString"
         THEN LET str == DecString(binary, off, None) IN
              IF str.ok /\ str.val = o.str
              THEN OperandsAt(Tail(ops), str.off) ELSE -1
         ELSE IF o.kind \in {"LiteralInt64", "LiteralFloat64"}
         THEN IF HasWordAt(off + WORD_NUM_BYTES) /\ WordAt(off) = o.val
                 /\ WordAt(off + WORD_NUM_BYTES) = o.hi
              THEN OperandsAt(Tail(ops), off + 2 * WORD_NUM_BYTES) ELSE -1
         ELSE IF HasWordAt(off) /\ WordAt(off) = o.val
              THEN OperandsAt(Tail(ops), off + WORD_NUM_BYTES) ELSE -1

\* C22: for every instruction emitted, result_type holds the word matched
\* by the IdResultType slot and result_id the word matched by the IdResult
\* slot, each None exactly when the signature has no such slot; those words
\* are not in the operands list; and the operands list is, in the order of
\* the stream, what the instruction's remaining words hold, parameters of
\* enumerants included.
C22_IdsApartOperandsInOrder ==
    \A i \in CallsOf("consume_instruction") :
        LET sig == GInstTable[InstOf(i).opcode]
            start == StartOfCall(i)
            hasT == HasSlot(sig, "IdResultType")
            hasR == HasSlot(sig, "IdResult")
            atR == start + WORD_NUM_BYTES * (IF hasT THEN 2 ELSE 1)
        IN /\ IsSome(InstOf(i).result_type) <=> hasT
           /\ IsSome(InstOf(i).result_id) <=> hasR
           /\ hasT => InstOf(i).result_type
                         = Some(WordAt(start + WORD_NUM_BYTES))
           /\ hasR => InstOf(i).result_id = Some(WordAt(atR))
           /\ \A k \in 1..Len(InstOf(i).operands) :
                 InstOf(i).operands[k].kind
                    \notin {"Id", "IdResultType", "IdResult"}
           /\ OperandsAt(InstOf(i).operands,
                         start + WORD_NUM_BYTES * (1 + NumIdWords(sig)))
                 = calls[i].off

\* %2 = OpConstant %1 with a literal of two words: both ids in their
\* fields, the literal the only operand
C22_Witness ==
    /\ Len(calls) = 4
    /\ calls[4].cb = "consume_instruction"
    /\ InstOf(4).opcode = Op.Constant
    /\ InstOf(4).result_type = Some(1)
    /\ InstOf(4).result_id = Some(2)
    /\ InstOf(4).operands = <<Operand64("LiteralFloat64", 305419896, 7)>>

----------------------------------------------------------------------------
(* C23 *)

\* the variant of the operand decoded for a parameter of the kind
VariantOf(kind) == IF kind = "LiteralInteger" THEN "LiteralInt32" ELSE kind

\* C23: in every instruction emitted, an enumerant that carries parameters
\* is followed at once by one operand per parameter kind, in the order of
\* the grammar, each holding the word that follows in the stream; the
\* enumerant's slot being the last of its signature, these are the last
\* operands, and the enumerant and its parameters take one word each.
C23_ParametersFollowEnumerant ==
    \A i \in CallsOf("consume_instruction") :
        LET ops == InstOf(i).operands
            first == StartOfCall(i) + WORD_NUM_BYTES
                        * (1 + NumIdWords(GInstTable[InstOf(i).opcode]))
        IN \A k \in 1..Len(ops) :
            LET ps == EnumParams(ops[k].kind, ops[k].val)
                at == OperandsAt(SubSeq(ops, 1, k - 1), first)
            IN ps # <<>> =>
                /\ at >= 0
                /\ WordAt(at) = ops[k].val
                /\ Len(ops) = k + Len(ps)
                /\ \A j \in 1..Len(ps) :
                     ops[k + j] = Operand(VariantOf(ps[j]),
                                          WordAt(at + j * WORD_NUM_BYTES))
                /\ calls[i].off = at + (1 + Len(ps)) * WORD_NUM_BYTES

\* OpExecutionMode %4 LocalSize 8 9 10: the enumerant, then its three
\* parameters
C23_Witness ==
    /\ Len(calls) >= 3
    /\ LastCall.cb = "consume_instruction"
    /\ InstOf(Len(calls)).operands
         = <<Operand("IdRef", 4),
             Operand("ExecutionMode", ExecutionMode.LocalSize),
             Operand("LiteralInt32", 8), Operand("LiteralInt32", 9),
             Operand("LiteralInt32", 10)>>

----------------------------------------------------------------------------
(* C24 *)

\* the header the first five words of the input make
HeaderOfInput ==
    ModuleHeader(WordAt(0), WordAt(WORD_NUM_BYTES), WordAt(2 * WORD_NUM_BYTES),
                 WordAt(3 * WORD_NUM_BYTES), WordAt(4 * WORD_NUM_BYTES))

\* C24: when parse returns Ok the input has at least 20 bytes and
\* consume_header was called exactly once; and whenever consume_header is
\* called, the header it receives has magic, version, generator, bound and
\* reserved equal to the first five little-endian words of the input, in
\* that order.
C24_HeaderVerbatim ==
    /\ result = OkResult =>
          /\ Len(binary) >= HeaderLen
          /\ Cardinality(CallsOf("consume_header")) = 1
    /\ \A i \in CallsOf("consume_header") :
          /\ Len(binary) >= HeaderLen
          /\ calls[i].hdr = Some(HeaderOfInput)
          /\ calls[i].off = HeaderLen

\* a parse that succeeded on a header of five different words
C24_Witness ==
    /\ result = OkResult
    /\ calls[2].hdr = Some(ModuleHeader(MAGIC_NUMBER, 66048, 7, 9, 0))

----------------------------------------------------------------------------
(* C25 *)

\* C25: parse never returns Complete.  parse_inst answers Complete exactly
\* when it cannot read the first word of an instruction, and the driver
\* then leaves the loop: its next step is the call of finalize, with which
\* parse returns; the loop is left in no other way, and the operand walker
\* never returns Complete.
C25_CompleteNeverReturned ==
    /\ [](result.tag # "Complete" /\ walk.tag # "Complete")
    /\ [][/\ pc = "parse_inst" =>
                ((~HasWordAt(offset)) <=> (pc' = "finalize"))
          /\ pc' = "finalize" => (pc = "parse_inst" /\ result' = Pending)
          /\ pc = "finalize" =>
                (Done' /\ calls'[Len(calls')].cb = "finalize")]_vars

\* the loop has just been left at the end of the input, after one
\* instruction
C25_Witness ==
    /\ pc = "finalize"
    /\ result = Pending
    /\ offset = Len(binary)
    /\ NumConsumed = 1

----------------------------------------------------------------------------
(* C26 *)

\* the words a sequence of bytes makes, four bytes a word, low byte first
RECURSIVE WordsOfBytes(_)
WordsOfBytes(bs) ==
    IF Len(bs) < WORD_NUM_BYTES THEN <<>>
    ELSE <<BytesToWord(SubSeq(bs, 1, WORD_NUM_BYTES))>>
         \o WordsOfBytes(SubSeq(bs, WORD_NUM_BYTES + 1, Len(bs)))

\* zeros that fill n bytes up to a word boundary
ZeroPad(n) ==
    [i \in 1..((WORD_NUM_BYTES - (n % WORD_NUM_BYTES)) % WORD_NUM_BYTES)
        |-> 0]

\* a string as words: its bytes, the terminating zero, zeros up to the word
\* boundary
EncodeString(bs) ==
    WordsOfBytes(bs \o <<0>> \o ZeroPad(Len(bs) + 1))

\* an operand as words: a string packed, a 64-bit literal low word first,
\* anything else its one word
EncodeOperand(o) ==
    IF o.kind = "LiteralString" THEN EncodeString(o.str)
    ELSE IF o.kind \in {"LiteralInt64", "LiteralFloat64"}
    THEN <<o.val, o.hi>>
    ELSE <<o.val>>

RECURSIVE EncodeOperands(_)
EncodeOperands(ops) ==
    IF ops = <<>> THEN <<>>
    ELSE EncodeOperand(Head(ops)) \o EncodeOperands(Tail(ops))

\* an instruction as words: (wc << 16) | opcode, the id of the result type,
\* the id of the result, the operands
EncodeInst(ins) ==
    LET body == ins.result_type \o ins.result_id
                \o EncodeOperands(ins.operands)
    IN <<FirstWord(Len(body) + 1, ins.opcode)>> \o body

\* a header as its five words
EncodeHeader(h) ==
    <<h.magic, h.version, h.generator, h.bound, h.reserved>>

\* what the consumer was handed up to call n, as words, in emission order
RECURSIVE Serialised(_)
Serialised(n) ==
    IF n = 0 THEN <<>>
    ELSE Serialised(n - 1)
         \o (IF calls[n].cb = "consume_header"
             THEN EncodeHeader(Unwrap(calls[n].hdr))
             ELSE IF calls[n].cb = "consume_instruction"
             THEN EncodeInst(InstOf(n))
             ELSE <<>>)

\* the complete words of the input
ModuleWords == WordsOfBytes(binary)

\* the bytes of the input from position from + 1 to position to are zero
ZeroBytes(from, to) == \A k \in (from + 1)..to : binary[k] = 0

\* every string among the operands ops, which lie in the input from byte
\* offset off on, is followed by zeros up to its word boundary
RECURSIVE ZeroPaddedAt(_, _)
ZeroPaddedAt(ops, off) ==
    IF ops = <<>> THEN TRUE
    ELSE LET o == Head(ops) IN
         IF o.kind = "LiteralString"
         THEN LET str == DecString(binary, off, None) IN
              /\ ZeroBytes(off + Len(o.str), str.off)
              /\ ZeroPaddedAt(Tail(ops), str.off)
         ELSE ZeroPaddedAt(Tail(ops), off + WORD_NUM_BYTES * Len(EncodeOperand(o)))

\* the strings of the instructions parsed are padded with zeros
ZeroPadded ==
    \A i \in CallsOf("consume_instruction") :
        ZeroPaddedAt(InstOf(i).operands,
                     StartOfCall(i) + WORD_NUM_BYTES
                        * (1 + NumIdWords(GInstTable[InstOf(i).opcode])))

\* C26 as stated: for every input on which parse returns Ok, the header
\* and the instructions handed to the consumer, written out again,
\* are the words of the input.
C26_AsStated ==
    result = OkResult => Serialised(Len(calls)) = ModuleWords

\* C26: for every input whose strings are padded with zeros and on which
\* parse returns Ok, the header and the instructions handed to the consumer,
\* written out again in emission order, are the complete words of the input.
C26_RoundTrip ==
    (result = OkResult /\ ZeroPadded) =>
        Serialised(Len(calls)) = ModuleWords

\* a parse that succeeded on OpSource with a file id and the source "wow",
\* and one on a module whose third instruction has a literal of 64 bits
C26_Witness ==
    /\ result = OkResult
    /\ ZeroPadded
    /\ \E i \in CallsOf("consume_instruction") :
          \/ /\ Len(InstOf(i).operands) = 4
             /\ InstOf(i).operands[4] = OperandStr(<<119, 111, 119>>)
          \/ /\ i = 5
             /\ InstOf(i).operands[1].kind = "LiteralInt64"

----------------------------------------------------------------------------
(* C27 *)

\* the signature the walker walks, and the slot it stands at
WalkedSignature == GInstTable[grammar]
AtSlot == pc = "walk" /\ loperand_index < Len(WalkedSignature)
SlotQuantifier == WalkedSignature[loperand_index + 1].quantifier
\* a step of the walker that dispatched its slot and got an operand
Dispatched == AtSlot /\ pc' = "walk"

\* C27: a pass of the walker that dispatches a ZeroOrMore slot leaves the
\* slot index where it is, one that dispatches a One or ZeroOrOne slot
\* moves it on by one, and each takes at least one word of the budget; the
\* index never moves beyond a ZeroOrMore slot; and the walker, standing at
\* a ZeroOrMore slot, returns Ok only when the budget is exhausted.
C27_ZeroOrMoreRepeats ==
    /\ [][Dispatched =>
             /\ ~limit_reached(limit)
             /\ offset' >= offset + WORD_NUM_BYTES
             /\ loperand_index' =
                   IF SlotQuantifier = "ZeroOrMore"
                   THEN loperand_index ELSE loperand_index + 1]_vars
    /\ [][(AtSlot /\ SlotQuantifier = "ZeroOrMore" /\ pc' = "end_inst"
             /\ walk' = OkResult)
           => (limit_reached(limit) /\ offset' = offset)]_vars
    /\ [](pc \in {"walk", "end_inst"} =>
             \A k \in 1..Len(WalkedSignature) :
                 WalkedSignature[k].quantifier = "ZeroOrMore"
                    => loperand_index < k)

\* OpTypeStruct %3 %1 %1: the IdRef* slot was dispatched twice and the
\* walker still stands at it
C27_Witness ==
    /\ pc = "walk"
    /\ grammar = Op.TypeStruct
    /\ loperand_index = 1
    /\ coperands = <<Operand("IdRef", 1), Operand("IdRef", 1)>>
    /\ limit_reached(limit)

----------------------------------------------------------------------------
(* C28 *)

\* an OpConstant / OpSpecConstant of word count 4, the ids read, whose
\* result type is tracked with 64 bits: one budget word is left for a
\* literal of two
OneWordForWideLiteral ==
    /\ ConstantBegun
    /\ WordCountAtStart = 4
    /\ IsSome(TrackedType)
    /\ Unwrap(TrackedType).size = 64

\* C28: an OpConstant / OpSpecConstant whose result type is tracked with 64
\* bits and whose word count leaves one word for the literal is not handed
\* to the consumer and no literal is made for it: the walker returns
\* OperandError with the budget exhausted (StreamExpected at the offset
\* after the low word when the input holds that word), and parse returns
\* that error; and every constant of a 64-bit type that was handed to the
\* consumer has a 64-bit literal as its operand and takes five words.
C28_NoLiteralFromOneWord ==
    /\ [](/\ OneWordForWideLiteral =>
                /\ pc # "consume_inst"
                /\ loperand_index = 2
                /\ coperands = <<>>
                /\ pc = "end_inst" =>
                      /\ walk.tag = "OperandError"
                      /\ limit_reached(limit)
                      /\ HasWordAt(LiteralAt) =>
                            walk = OperandError(StreamExpected(
                                       LiteralAt + WORD_NUM_BYTES))
          /\ \A i \in CallsOf("consume_instruction") :
                LET t == resolve(TrackedUpTo(i - 1),
                                 Unwrap(InstOf(i).result_type))
                IN (/\ InstOf(i).opcode \in {Op.Constant, Op.SpecConstant}
                    /\ IsSome(t)
                    /\ Unwrap(t).size = 64)
                      => /\ Len(InstOf(i).operands) = 1
                         /\ InstOf(i).operands[1].kind
                               \in {"LiteralInt64", "LiteralFloat64"}
                         /\ calls[i].off
                               = StartOfCall(i) + 5 * WORD_NUM_BYTES)
    /\ [][(OneWordForWideLiteral /\ pc = "end_inst") =>
             (Done' /\ result' = walk /\ calls' = calls)]_vars

\* the second word of the literal was refused by the budget although the
\* input goes on after the instruction
C28_Witness ==
    /\ Done
    /\ grammar = Op.Constant
    /\ types = (1 :> Integer(64, FALSE))
    /\ result = OperandError(StreamExpected(inst_start + 4 * WORD_NUM_BYTES))
    /\ HasWordAt(inst_start + 4 * WORD_NUM_BYTES)
    /\ NumConsumed = 1

----------------------------------------------------------------------------
(* C29 *)

\* the words of the budget not yet charged
BudgetLeft == Unwrap(limit)

\* C29: parse terminates.  A pass of the driver loop that reads the first
\* word of an instruction either ends the loop or has taken four bytes of
\* the input, and the offset never goes back; a pass of the walker returns,
\* moves the slot index on, or takes at least one word of the budget; and
\* the instructions handed to the consumer are at most (input length - 20)
\* / 4, none at all for an input shorter than the header.
C29_Terminates ==
    /\ <>Done
    /\ [][/\ offset' >= offset
          /\ (pc = "parse_inst" /\ pc' \notin {"finalize", "done"}) =>
                offset' >= offset + WORD_NUM_BYTES
          /\ pc = "walk" =>
                \/ pc' = "end_inst"
                \/ loperand_index' = loperand_index + 1
                \/ BudgetLeft' < BudgetLeft]_vars
    /\ [](/\ offset <= Len(binary)
          /\ NumConsumed > 0 =>
                /\ Len(binary) >= HeaderLen
                /\ NumConsumed <= (Len(binary) - HeaderLen) \div WORD_NUM_BYTES)

\* a parse that ended having handed over as many instructions as the input
\* has words after the header
C29_Witness ==
    /\ Done
    /\ NumConsumed = 2
    /\ NumConsumed = (Len(binary) - HeaderLen) \div WORD_NUM_BYTES

----------------------------------------------------------------------------
(* C30 *)

\* the instruction the step hands to the consumer
Consumed == Unwrap(calls'[Len(calls')].ins)
\* the ids whose record track may write for it
OwnResultId ==
    IF IsSome(Consumed.result_id) THEN {Unwrap(Consumed.result_id)} ELSE {}
\* track has nothing to record for it
NothingToTrack ==
    \/ ~IsSome(Consumed.result_id)
    \/ is_type(Consumed.opcode)
          /\ Consumed.opcode \notin {Op.TypeInt, Op.TypeFloat}
    \/ ~is_type(Consumed.opcode)
          /\ (\/ ~IsSome(Consumed.result_type)
              \/ Unwrap(Consumed.result_type) \notin DOMAIN types)

\* C30: no step removes a record from the tracker; the step that tracks an
\* instruction changes or adds at most the record of that instruction's
\* result id; and it leaves the whole map as it was when the instruction
\* has no result id, when it is a type opcode other than OpTypeInt /
\* OpTypeFloat, and when it is no type opcode and its result type is absent
\* or has no record.
C30_TrackFrame ==
    [][/\ DOMAIN types \subseteq DOMAIN types'
       /\ InstConsumed =>
             /\ DOMAIN types' \subseteq DOMAIN types \cup OwnResultId
             /\ \A k \in DOMAIN types \ OwnResultId : types'[k] = types[k]
             /\ NothingToTrack => types' = types
      ]_vars

\* %1 = OpTypeInt 64 0 was tracked, then %1 = OpUndef of the unknown type
\* %9 was handed over: the record of %1 is still there
C30_Witness ==
    /\ Len(calls) >= 4
    /\ calls[4].cb = "consume_instruction"
    /\ InstOf(4).opcode = Op.Undef
    /\ InstOf(4).result_type = Some(9)
    /\ InstOf(4).result_id = Some(1)
    /\ types = (1 :> Integer(64, FALSE))

====
